---- MODULE Spec2Model ----
(***************************************************************************)
(* DevQuine: the article generator's GUI (src/app.py, class                *)
(* ArticleGenerator) and its two completion-service helpers (src/api.py).  *)
(*                                                                         *)
(* Text is a sequence of units.  A unit is one character, except that the  *)
(* literal phrases of the prompts and of the loading caption are one unit  *)
(* each ("Title: ", "Generating article", ...).                            *)
(*                                                                         *)
(* The GUI thread runs one handler at a time (Qt's event loop): a click on *)
(* "Generate", a timeout of either QTimer, or the delivery of a queued     *)
(* articleGenerated signal.  Each click starts a worker thread, which      *)
(* makes the two blocking service calls and then emits the signal.         *)
(***************************************************************************)
EXTENDS Integers, Sequences, FiniteSets, TLC

----------------------------------------------------------------------------
(* Bounds of the model *)

\* Clicks on "Generate" in one run.
MaxClicks == 2

\* Characters the user types into the tags field.
MaxTagLen == 4

----------------------------------------------------------------------------
(* Text helpers: Python's str.strip, str.split, str.join *)

Whitespace == {" ", "\t", "\n"}

RECURSIVE LStrip(_)
LStrip(s) ==
    IF s # <<>> /\ Head(s) \in Whitespace THEN LStrip(Tail(s)) ELSE s

RECURSIVE RStrip(_)
RStrip(s) ==
    IF s # <<>> /\ s[Len(s)] \in Whitespace
    THEN RStrip(SubSeq(s, 1, Len(s) - 1))
    ELSE s

\* Strip as str.lstrip(): the trailing whitespace stays.
Mut_StripLeftOnly(s) == LStrip(s)

\* str.strip(): leading and trailing whitespace removed.
Strip(s) == RStrip(LStrip(s))

\* The scan of str.split(","): cur is the piece being read; a comma closes
\* it (an empty piece is kept), the end of the string closes the last one.
RECURSIVE SplitScan(_, _)
SplitScan(s, cur) ==
    IF s = <<>> THEN <<cur>>
    ELSE IF Head(s) = "," THEN <<cur>> \o SplitScan(Tail(s), <<>>)
    ELSE SplitScan(Tail(s), Append(cur, Head(s)))

\* tags.split(",")
Split(s) == SplitScan(s, <<>>)

\* ", ".join(pieces)
RECURSIVE Join(_)
Join(pieces) ==
    IF Len(pieces) = 0 THEN <<>>
    ELSE IF Len(pieces) = 1 THEN pieces[1]
    ELSE pieces[1] \o <<",", " ">> \o Join(Tail(pieces))

\* [tag.strip() for tag in tags.split(",")]
StrippedTags(tags) == [k \in DOMAIN Split(tags) |-> Strip(Split(tags)[k])]

\* tag_string = ", ".join([tag.strip() for tag in tags.split(",")])
TagString(tags) == Join(StrippedTags(tags))

----------------------------------------------------------------------------
(* The prompts of src/api.py *)

OutlineMaxTokens == 200
ArticleMaxTokens == 800

\* f"Title: {title}\nTags: {tag_string}\nNotes: {notes}\n\nCreate a detailed
\* outline for an article based on the above information:"
OutlinePrompt(title, tags, notes) ==
    <<"Title: ">> \o title \o <<"\n", "Tags: ">> \o TagString(tags)
        \o <<"\n", "Notes: ">> \o notes
        \o <<"\n", "\n",
             "Create a detailed outline for an article based on the above information:">>

\* f"Write a detailed article based on the following outline:\n{outline}\n"
ArticlePrompt(outline) ==
    <<"Write a detailed article based on the following outline:", "\n">>
        \o outline \o <<"\n">>

----------------------------------------------------------------------------
(* The completion service: a black box that answers a request with a text  *)
(* or raises.  Its answers are drawn from these sets.                      *)

Completions == { <<" ", "x", "\n">> }
Failures    == { <<"E", " ">> }

Outcomes == [kind : {"ok"}, text : Completions]
                \cup [kind : {"raise"}, text : Failures]

\* What either helper does with the service's outcome: the stripped text of
\* the first choice, or str(e) of the exception, as it is.
ResultOf(outcome) ==
    IF outcome.kind = "ok" THEN Strip(outcome.text) ELSE outcome.text

\* generate_article_outline with an except branch that returns "" instead
\* of str(e).
Mut_OutlineDropsError(title, notes, tags, outcome) ==
    [request |-> [prompt |-> OutlinePrompt(title, tags, notes),
                  max_tokens |-> OutlineMaxTokens],
     result  |-> IF outcome.kind = "ok" THEN Strip(outcome.text) ELSE <<>>]

\* generate_article_outline(title, notes, tags): the request sent and the
\* value returned, given the service's outcome.
generate_article_outline(title, notes, tags, outcome) ==
    [request |-> [prompt |-> OutlinePrompt(title, tags, notes),
                  max_tokens |-> OutlineMaxTokens],
     result  |-> ResultOf(outcome)]

\* generate_full_article_from_outline(outline)
generate_full_article_from_outline(outline, outcome) ==
    [request |-> [prompt |-> ArticlePrompt(outline),
                  max_tokens |-> ArticleMaxTokens],
     result  |-> ResultOf(outcome)]

----------------------------------------------------------------------------
(* The output area (a QTextBrowser): its text and its text cursor.  The    *)
(* user does not place the cursor in the output area.                      *)

\* "Generating article" + "." * n
Caption(n) == <<"Generating article">> \o [k \in 1..n |-> "."]

\* generated_text_area.clear()
ClearArea == [text |-> <<>>, cursor |-> 0]

\* generated_text_area.setText(s): the document is replaced and the text
\* cursor returns to its start.
SetText(s) == [text |-> s, cursor |-> 0]

\* generated_text_area.insertPlainText(c): c goes in at the text cursor,
\* which moves behind it.
InsertPlainText(area, c) ==
    [text   |-> SubSeq(area.text, 1, area.cursor) \o <<c>>
                    \o SubSeq(area.text, area.cursor + 1, Len(area.text)),
     cursor |-> area.cursor + 1]

\* The dot count taken modulo 3: the caption never shows three periods.
Mut_EllipsisModThree(c) == (c + 1) % 3

\* ellipsis_count = (ellipsis_count + 1) % 4
NextEllipsisCount(c) == (c + 1) % 4

----------------------------------------------------------------------------
(* State *)

VARIABLES
    title_entry,              \* the title field's text
    tags_entry,               \* the tags field's text
    notes_entry,              \* the notes field's text
    ellipsis_timer,           \* TRUE while the loading QTimer is active
    ellipsis_count,
    typing_timer,             \* TRUE while the typing QTimer is active
    generated_text_area,      \* [text, cursor]
    full_generated_text,
    current_typing_position,
    threads,                  \* the live worker threads, by submission number
    events,                   \* queued articleGenerated emissions, oldest first
    clicks,                   \* submissions so far
    shown,                    \* history: the submission whose result was delivered last
    last_caption              \* history: the latest loading render

vars == <<title_entry, tags_entry, notes_entry, ellipsis_timer, ellipsis_count,
          typing_timer, generated_text_area, full_generated_text,
          current_typing_position, threads, events, clicks, shown, last_caption>>

inputs == <<title_entry, tags_entry, notes_entry>>
gui    == <<ellipsis_timer, ellipsis_count, typing_timer, generated_text_area,
            full_generated_text, current_typing_position, shown, last_caption>>

NoCaption == <<>>

\* ArticleGenerator.__init__.  full_generated_text and
\* current_typing_position are first assigned by
\* update_gui_with_generated_article, and read only while typing_timer runs,
\* which that handler starts: their value here is never read.
Init ==
    /\ title_entry = <<>>
    /\ tags_entry = <<>>
    /\ notes_entry = <<>>
    /\ ellipsis_timer = FALSE
    /\ ellipsis_count = 0
    /\ typing_timer = FALSE
    /\ generated_text_area = ClearArea
    /\ full_generated_text = <<>>
    /\ current_typing_position = 0
    /\ threads = << >>
    /\ events = <<>>
    /\ clicks = 0
    /\ shown = 0
    /\ last_caption = NoCaption

----------------------------------------------------------------------------
(* The user fills the input fields *)

TagChars == {"a", "b", " ", ","}

\* Whole inputs pasted into the three fields: <<title, tags, notes>>.
Samples ==
    { << <<"T">>, <<"a", ",", " ", "b", " ", ",", "c">>, <<"n">> >>,
      << <<"O", "c">>,
         <<"n", "a", "t", "u", "r", "e", ",", " ", "w", "a", "t", "e", "r",
           ",", " ", "p", "o", "l", "i", "c", "y">>,
         <<"p">> >> }

\* One more character typed at the end of the tags field.
TypeTags ==
    /\ Len(tags_entry) < MaxTagLen
    /\ \E c \in TagChars : tags_entry' = Append(tags_entry, c)
    /\ UNCHANGED <<title_entry, notes_entry, gui, threads, events, clicks>>

\* The three empty fields filled at once.
PasteSample ==
    /\ title_entry = <<>> /\ tags_entry = <<>> /\ notes_entry = <<>>
    /\ \E s \in Samples :
         /\ title_entry' = s[1]
         /\ tags_entry' = s[2]
         /\ notes_entry' = s[3]
    /\ UNCHANGED <<gui, threads, events, clicks>>

----------------------------------------------------------------------------
(* GUI thread *)

\* generate_article: the click handler.
GenerateArticle ==
    /\ clicks < MaxClicks
    /\ clicks' = clicks + 1
    /\ ellipsis_timer' = TRUE
    /\ threads' = [i \in DOMAIN threads \cup {clicks + 1} |->
                      IF i = clicks + 1
                      THEN [pc |-> "outline", title |-> title_entry,
                            tags |-> tags_entry, notes |-> notes_entry,
                            calls |-> <<>>, request |-> <<>>,
                            outline |-> <<>>, generated_article |-> <<>>]
                      ELSE threads[i]]
    /\ UNCHANGED <<inputs, ellipsis_count, typing_timer, generated_text_area,
                   full_generated_text, current_typing_position, events,
                   shown, last_caption>>

\* update_ellipsis: the loading timer's timeout.
UpdateEllipsis ==
    /\ ellipsis_timer
    /\ ellipsis_count' = NextEllipsisCount(ellipsis_count)
    /\ generated_text_area' = SetText(Caption(ellipsis_count'))
    /\ last_caption' = Caption(ellipsis_count')
    /\ UNCHANGED <<inputs, ellipsis_timer, typing_timer, full_generated_text,
                   current_typing_position, threads, events, clicks, shown>>

\* update_gui_with_generated_article without ellipsis_timer.stop().
Mut_UpdateGuiKeepsEllipsis ==
    /\ events # <<>>
    /\ events' = Tail(events)
    /\ generated_text_area' = ClearArea
    /\ full_generated_text' = Head(events).text
    /\ current_typing_position' = 0
    /\ typing_timer' = TRUE
    /\ shown' = Head(events).id
    /\ UNCHANGED <<inputs, ellipsis_timer, ellipsis_count, threads, clicks,
                   last_caption>>

\* update_gui_with_generated_article(text), run for the oldest queued
\* emission of articleGenerated.
UpdateGuiWithGeneratedArticle ==
    /\ events # <<>>
    /\ events' = Tail(events)
    /\ ellipsis_timer' = FALSE
    /\ generated_text_area' = ClearArea
    /\ full_generated_text' = Head(events).text
    /\ current_typing_position' = 0
    /\ typing_timer' = TRUE
    /\ shown' = Head(events).id
    /\ UNCHANGED <<inputs, ellipsis_count, threads, clicks, last_caption>>

\* type_next_character: the typing timer's timeout.
TypeNextCharacter ==
    /\ typing_timer
    /\ IF current_typing_position < Len(full_generated_text)
       THEN /\ generated_text_area' =
                   InsertPlainText(generated_text_area,
                       full_generated_text[current_typing_position + 1])
            /\ current_typing_position' = current_typing_position + 1
            /\ UNCHANGED typing_timer
       ELSE /\ typing_timer' = FALSE
            /\ UNCHANGED <<generated_text_area, current_typing_position>>
    /\ UNCHANGED <<inputs, ellipsis_timer, ellipsis_count, full_generated_text,
                   threads, events, clicks, shown, last_caption>>

----------------------------------------------------------------------------
(* Worker thread i: call_openai_api(title, tags, notes) *)

\* outline = generate_article_outline(title, notes, tags)
OutlineCall(i) ==
    /\ i \in DOMAIN threads
    /\ threads[i].pc = "outline"
    /\ \E outcome \in Outcomes :
         LET r == generate_article_outline(threads[i].title, threads[i].notes,
                                           threads[i].tags, outcome)
         IN threads' = [threads EXCEPT ![i] =
                [@ EXCEPT !.pc = "article",
                          !.calls = Append(@, [fn |-> "generate_article_outline",
                                               outcome |-> outcome]),
                          !.request = r.request,
                          !.outline = r.result]]
    /\ UNCHANGED <<inputs, gui, events, clicks>>

\* generated_article = generate_full_article_from_outline(outline)
ArticleCall(i) ==
    /\ i \in DOMAIN threads
    /\ threads[i].pc = "article"
    /\ \E outcome \in Outcomes :
         LET r == generate_full_article_from_outline(threads[i].outline, outcome)
         IN threads' = [threads EXCEPT ![i] =
                [@ EXCEPT !.pc = "emit",
                          !.calls = Append(@, [fn |-> "generate_full_article_from_outline",
                                               outcome |-> outcome]),
                          !.request = r.request,
                          !.generated_article = r.result]]
    /\ UNCHANGED <<inputs, gui, events, clicks>>

\* self.articleGenerated.emit(generated_article): from a worker thread the
\* connection is queued; the thread then returns.
Emit(i) ==
    /\ i \in DOMAIN threads
    /\ threads[i].pc = "emit"
    /\ events' = Append(events, [id |-> i, text |-> threads[i].generated_article])
    /\ threads' = [j \in DOMAIN threads \ {i} |-> threads[j]]
    /\ UNCHANGED <<inputs, gui, clicks>>

Worker(i) == OutlineCall(i) \/ ArticleCall(i) \/ Emit(i)

----------------------------------------------------------------------------
\* finish_loading is called from nowhere, and the run ends only with the
\* process: neither is a step.
Next ==
    \/ GenerateArticle
    \/ UpdateEllipsis
    \/ UpdateGuiWithGeneratedArticle
    \/ TypeNextCharacter
    \/ \E i \in 1..MaxClicks : Worker(i)

Spec == Init /\ [][Next]_vars

\* Qt's event loop serves every pending timeout and queued signal, and the
\* operating system schedules every worker thread; the user need not click.
FairSpec ==
    /\ Spec
    /\ WF_vars(UpdateGuiWithGeneratedArticle)
    /\ WF_vars(TypeNextCharacter)
    /\ \A i \in 1..MaxClicks : WF_vars(Worker(i))

\* One submission up to its outline request, for every content of the tags
\* field: the user fills the fields, clicks once, and the worker builds and
\* sends the outline prompt.
TagNext ==
    \/ clicks = 0 /\ TypeTags
    \/ clicks = 0 /\ PasteSample
    \/ clicks = 0 /\ GenerateArticle
    \/ \E i \in 1..MaxClicks : OutlineCall(i)

TagSpec == Init /\ [][TagNext]_vars

----------------------------------------------------------------------------
(* Definitions the properties share *)

IdleP    == "Idle"
LoadingP == "Loading"
TypingP  == "Typing"

\* The animation phase read off the two timers; both running is none of the
\* three phases.
Phase ==
    IF ellipsis_timer /\ typing_timer THEN "Both"
    ELSE IF ellipsis_timer THEN LoadingP
    ELSE IF typing_timer THEN TypingP
    ELSE IdleP

\* Submissions whose result has not reached update_gui_with_generated_article.
Outstanding ==
    DOMAIN threads \cup { events[k].id : k \in DOMAIN events }

\* What has been revealed of the current result.
Revealed == SubSeq(full_generated_text, 1, current_typing_position)

\* Nothing is in flight and no timer runs.
Quiescent ==
    /\ Outstanding = {}
    /\ ~ellipsis_timer
    /\ ~typing_timer

----------------------------------------------------------------------------
(* C1: the animation phase never skips: every change of phase is Idle to   *)
(* Loading, Loading to Typing, or Typing to Idle.                          *)
C1_PhaseNeverSkips ==
    [][Phase' # Phase =>
          <<Phase, Phase'>> \in { <<IdleP, LoadingP>>, <<LoadingP, TypingP>>,
                                  <<TypingP, IdleP>> }]_vars

(* C2: at most one generation task is outstanding at any time.             *)
C2_AtMostOneOutstanding == Cardinality(Outstanding) <= 1

(* C3: the loading tick and the typing tick never run at the same time.    *)
C3_OneAnimationActive == ~(ellipsis_timer /\ typing_timer)

(* C4: the output area always shows either a loading caption or exactly    *)
(* the revealed prefix of the current result.                              *)
C4_CaptionOrRevealedPrefix ==
    \/ generated_text_area.text \in { Caption(n) : n \in 0..3 }
    \/ generated_text_area.text = Revealed

(* C5: the typing position moves only up by one, while below the length   *)
(* of the current result, and falls back only once it has reached that     *)
(* length; the typing tick stops only there.                               *)
C5_RevealMonotonic ==
    [][/\ \/ current_typing_position' = current_typing_position
          \/ /\ current_typing_position' = current_typing_position + 1
             /\ current_typing_position < Len(full_generated_text)
          \/ /\ current_typing_position = Len(full_generated_text)
             /\ current_typing_position' = 0
       /\ (typing_timer /\ ~typing_timer') =>
              current_typing_position = Len(full_generated_text)]_vars

(* C10: once every outstanding task has completed and typing has finished, *)
(* the result on display is that of the latest submission.                 *)
C10_LatestSubmissionShown ==
    (clicks > 0 /\ Quiescent) => shown = clicks

----------------------------------------------------------------------------
\* The calls a worker makes, in the order call_openai_api makes them.
CallOrder == <<"generate_article_outline", "generate_full_article_from_outline">>

(* C6: in every worker the outline call comes strictly before the article  *)
(* call; the outline call returns str(e) when the service raises; the      *)
(* article prompt embeds the outline call's return value unchanged, and    *)
(* the article call is not skipped after a failed outline call.            *)
C6_OutlineThenArticle ==
    \A i \in DOMAIN threads :
        LET t == threads[i] IN
        /\ Len(t.calls) <= 2
        /\ \A k \in DOMAIN t.calls : t.calls[k].fn = CallOrder[k]
        /\ t.pc = "outline" <=> Len(t.calls) = 0
        /\ t.pc = "article" <=> Len(t.calls) = 1
        /\ t.pc = "emit" <=> Len(t.calls) = 2
        /\ (Len(t.calls) >= 1 /\ t.calls[1].outcome.kind = "raise")
              => t.outline = t.calls[1].outcome.text
        /\ t.pc = "article" => ENABLED ArticleCall(i)
        /\ Len(t.calls) = 2 =>
              /\ t.request.max_tokens = 800
              /\ t.request.prompt =
                    <<"Write a detailed article based on the following outline:",
                      "\n">> \o t.outline \o <<"\n">>

\* A worker has made its article call with the error text of a failed
\* outline call as the outline.
C6_Witness ==
    \E i \in DOMAIN threads :
        /\ threads[i].pc = "emit"
        /\ threads[i].calls[1].outcome.kind = "raise"
        /\ threads[i].outline = <<"E", " ">>

(* C7: every submission's result is eventually delivered, with the loading *)
(* tick stopped, and in the end no tick runs, nothing is in flight and the *)
(* whole of the last result is on display.                                 *)
C7_RunsToCompletion ==
    /\ \A i \in 1..MaxClicks :
          (i \in DOMAIN threads) ~> (shown = i /\ ~ellipsis_timer)
    /\ <>[](/\ Quiescent
            /\ current_typing_position = Len(full_generated_text)
            /\ clicks > 0 => generated_text_area.text = full_generated_text)

\* Two submissions have run to completion and a non-empty result is fully
\* revealed.
C7_Witness ==
    /\ clicks = 2
    /\ Quiescent
    /\ full_generated_text # <<>>
    /\ generated_text_area.text = full_generated_text

(* C8: every loading tick sets the dot count to (dot count + 1) mod 4 and  *)
(* renders "Generating article" with that many periods, which differs from *)
(* the loading render before it; nothing else changes the dot count.       *)
C8_CaptionCycles ==
    [][/\ UpdateEllipsis =>
             /\ ellipsis_count' = (ellipsis_count + 1) % 4
             /\ generated_text_area'.text =
                   <<"Generating article">> \o [k \in 1..ellipsis_count' |-> "."]
             /\ generated_text_area'.text # last_caption
             /\ last_caption' = generated_text_area'.text
       /\ ellipsis_count' # ellipsis_count => UpdateEllipsis]_vars

\* The dot count has wrapped to 0 during the second submission, made while
\* the first was still loading.
C8_Witness ==
    /\ last_caption = <<"Generating article">>
    /\ clicks = 2
    /\ Cardinality(DOMAIN threads) = 2
    /\ generated_text_area.text = last_caption

----------------------------------------------------------------------------
(* The tag segment, stated by positions rather than by scanning *)

TokenAt(prompt, tok) == CHOOSE k \in DOMAIN prompt : prompt[k] = tok

\* What the prompt holds between "Tags: " and the line break before "Notes: ".
TagSegment(prompt) ==
    SubSeq(prompt, TokenAt(prompt, "Tags: ") + 1, TokenAt(prompt, "Notes: ") - 2)

CommaAt(s) == { k \in DOMAIN s : s[k] = "," }

\* The k-th piece lies between the (k-1)-th and the k-th comma.
PieceBefore(s, k) ==
    IF k = 0 THEN 0
    ELSE CHOOSE p \in CommaAt(s) : Cardinality({ q \in CommaAt(s) : q < p }) = k - 1
PieceAfter(s, k) ==
    IF k > Cardinality(CommaAt(s)) THEN Len(s) + 1
    ELSE CHOOSE p \in CommaAt(s) : Cardinality({ q \in CommaAt(s) : q < p }) = k - 1

\* The k-th piece from its first to its last character that is no whitespace.
TrimmedPiece(s, k) ==
    LET inside == { p \in DOMAIN s : /\ PieceBefore(s, k - 1) < p
                                    /\ p < PieceAfter(s, k)
                                    /\ s[p] \notin {" ", "\t", "\n"} }
    IN IF inside = {} THEN <<>>
       ELSE SubSeq(s, CHOOSE p \in inside : \A q \in inside : p <= q,
                      CHOOSE p \in inside : \A q \in inside : q <= p)

\* r is the pieces of s, trimmed, in order, each two separated by ", ".
IsTagStringOf(r, s) ==
    LET n == Cardinality(CommaAt(s)) + 1
        start[k \in 1..n + 1] ==
            IF k = 1 THEN 1 ELSE start[k - 1] + Len(TrimmedPiece(s, k - 1)) + 2
    IN /\ Len(r) = start[n + 1] - 3
       /\ \A k \in 1..n :
             /\ SubSeq(r, start[k], start[k] + Len(TrimmedPiece(s, k)) - 1)
                    = TrimmedPiece(s, k)
             /\ k < n => /\ r[start[k + 1] - 2] = ","
                         /\ r[start[k + 1] - 1] = " "

(* C9: the tag segment of the outline prompt is the tags string split on   *)
(* commas, each piece trimmed, all pieces kept in order (empty ones too)   *)
(* and joined with ", "; "a, b ,c" gives "a, b, c".                        *)
C9_TagSegment ==
    \A i \in DOMAIN threads :
        threads[i].pc = "article" =>
            /\ IsTagStringOf(TagSegment(threads[i].request.prompt), threads[i].tags)
            /\ threads[i].tags = <<"a", ",", " ", "b", " ", ",", "c">> =>
                  TagSegment(threads[i].request.prompt)
                      = <<"a", ",", " ", "b", ",", " ", "c">>

\* The outline prompt has been built for tags with an empty piece, a piece
\* of whitespace only and a piece with whitespace on both sides.
C9_Witness ==
    \E i \in DOMAIN threads :
        /\ threads[i].pc = "article"
        /\ threads[i].tags = <<",", " ", ",", "a">>
        /\ TagSegment(threads[i].request.prompt) = <<",", " ", ",", " ", "a">>

====
